---- MODULE Spec2Model ----
(***************************************************************************)
(* The async/sync bridge of cim-domain-bevy (src/src/bridge.rs).           *)
(*                                                                         *)
(* CategoricalBridge owns two bounded crossbeam channels:                  *)
(*   domain_to_bevy : DomainEvent,          domain tasks -> tick thread    *)
(*   bevy_to_domain : VisualizationCommand, tick thread  -> domain tasks   *)
(* The bridge keeps BOTH endpoints of BOTH channels as fields, and hands   *)
(* clones of one endpoint of each to the domain side.                      *)
(*                                                                         *)
(* Threads: the domain-side producers and consumers run on their own; the  *)
(* tick thread runs each system of the Update schedule once per frame, in  *)
(* any order (plugin.rs registers them without ordering), one at a time.   *)
(* Every channel operation is one atomic step, so a drain interleaves with *)
(* concurrent sends; a call of Sender::send that finds the channel full    *)
(* parks its thread until there is room.                                   *)
(*                                                                         *)
(* Further sections, each with a specification of its own that leaves the  *)
(* bridge alone: the functors (functors.rs, components.rs), the NATS       *)
(* component sync (nats_component_bridge.rs), the node visuals of the demo *)
(* application (examples/visual_demo.rs, morphisms.rs) and the NATS event  *)
(* visualization (nats_event_visualization.rs).                            *)
(***************************************************************************)
EXTENDS Naturals, Sequences, FiniteSets, TLC

\* ------------------------------------------------------------------ bounds
MaxCapacity == 2      \* capacities 1..MaxCapacity are given to new()
MaxCommands == 2      \* visualization commands the application emits in a run
MaxTraffic == 3       \* events and commands of a run, both directions together
MaxCoord == 2         \* coordinates of a position are 0..MaxCoord
MaxNatsEvents == 2    \* component events forwarded and entities set up in a run
MaxStreamEvents == 12 \* domain events the NATS subscriber forwards in a run
MaxStoreEvents == 2   \* max_events of the plugin is 1..MaxStoreEvents
MaxTime == 2          \* the clock runs over 0..MaxTime seconds
MaxStatEvents == 3    \* calls of EventStatistics::update
MaxNodes == 2         \* node entities the handlers work on
MaxHandlerEvents == 2 \* commands of one kind waiting for their handler
MaxNodeEvents == 2    \* CreateNodeVisual events sent
MaxEdgeEvents == 2    \* CreateEdgeVisual events sent

\* ---------------------------------------------------- the program's numbers
BatchPerFrame == 10   \* `for _ in 0..10` of process_incoming_events
ChannelSlots == 1000  \* mpsc::channel(1000) of the event visualization
RetentionSeconds == 1 \* retention_seconds of the plugin

Producers == {"p1", "p2"}     \* domain tasks that may clone domain_sender()
TickCaller == "tick"          \* the tick thread, calling send_domain_event
Callers == Producers \cup {TickCaller}
Consumers == {"c1"}           \* domain tasks that may clone command_receiver()
CommandConsumers == Consumers \cup {"c2"}   \* the same, with a second clone
Systems == {"pde", "app", "svc"}
\* The systems holding an EventReader in the demo application.
DomainEventReaders == {"handle_domain_events"}
CreateNodeReaders == {"create_node_visual", "handle_node_creation"}
NodeIds == {"n1", "n2"}       \* NodeId values
GraphIds == {"g1", "g2"}      \* GraphId values
Vec3 == (0..MaxCoord) \X (0..MaxCoord) \X (0..MaxCoord)
EntityIds == {"u1", "u2"}     \* domain entity ids (Uuid) of component events
ComponentTypes == {"Position3D", "Label", "WorkflowStateComponent", "Other"}

VARIABLES
    capacity,        \* the argument of CategoricalBridge::new
    domain_to_bevy,  \* the queued DomainEvents, oldest first
    bevy_to_domain,  \* the queued VisualizationCommands, oldest first
    caller,          \* per caller: "none" | "idle" | "blocked" | "dropped"
    cons,            \* per consumer: "none" | "live" | "dropped"
    sent,            \* per caller: number of sends it has issued
    cur,             \* what the tick thread is running
    done,            \* the systems that have run in the current tick
    events,          \* the Vec that receive_domain_events builds / returned
    domain_events,   \* host Events<DomainEvent> written in the current tick
    viz_commands,    \* host Events<VisualizationCommand> not yet read
    emitted,         \* number of commands the application has emitted
    \* history of what happened, read only by the properties
    accepted,        \* every DomainEvent enqueued, in enqueue order
    delivered,       \* the results of all returned drains, concatenated
    pdeSnapshot,     \* domain_to_bevy when the running process_domain_events started
    pdeBase,         \* Len(accepted) when the running process_domain_events started
    cmdAccepted,     \* every command enqueued, in enqueue order
    cmdReceived,     \* every command a domain consumer received, in order
    send_command_result,  \* what the latest send_command returned
    try_recv_err,    \* the try_recv error that ended the latest drain
    \* the functors (src/src/functors.rs)
    fn_input,        \* the (node id, graph id, position) handed to F, if any
    visual_bundle,   \* Some(NodeVisualBundle) once F has run
    command,         \* Some(VisualizationCommand) once G has run
    \* the NATS component bridge (src/src/nats_component_bridge.rs)
    event_receiver,  \* the ComponentEvents queued in the unbounded channel
    world,           \* the entities spawned so far, by Entity index
    nats_cur,        \* "idle", or "processed" between the two chained systems
    nats_sent,       \* events forwarded and entities set up so far
    deleted_ids,     \* ids whose entity was despawned (history)
    drained_events,  \* the events of the update under way (history)
    \* the node visuals of the demo application (src/examples/visual_demo.rs)
    node_channel,    \* NodeAdded events queued in domain_to_bevy
    host_events,     \* Events<DomainEvent>: every drained event, in order
    create_events,   \* Events<CreateNodeVisual>: every event written, in order
    last_read,       \* per EventReader: how many events it has read
    scene,           \* the visual entities spawned, by Entity index
    \* the NATS event visualization (src/src/nats_event_visualization.rs)
    now,             \* Utc::now(), in seconds
    max_events,      \* the plugin's max_events
    nats_channel,    \* the DomainEventReceived queued in the mpsc channel
    event_store,     \* EventStore.events, oldest first
    unread_events,   \* Events<DomainEventReceived> create_event_visuals has not read
    event_visuals,   \* the EventVisual components of the live entities
    frame_cur,       \* the next system of the chained Update systems
    stream_arrived,  \* every event sent into the channel, in order (history)
    stream_written,  \* every event written to DomainEventReceived (history)
    \* the command handlers (src/src/handlers/mod.rs)
    nodes,             \* the VisualNodeAggregate entities, in query order
    move_events,       \* Events<MoveNode> handle_move_node has not read
    moved_events,      \* the NodeMoved events its last run sent
    move_trace,        \* the node entities before and after each MoveNode of that run
    select_events,     \* Events<SelectNode> handle_select_node has not read
    selected_events,   \* the NodeSelected events its last run sent
    deselected_events, \* the NodeDeselected events its last run sent
    select_trace,      \* the node entities before and after each SelectNode of that run
    \* the event statistics (src/src/nats_event_filter_ui.rs)
    statistics,      \* the EventStatistics resource
    update_calls,    \* the events EventStatistics::update was called with (history)
    \* the morphism systems (src/src/morphisms.rs)
    node_events,     \* Events<CreateNodeVisual>, every event sent so far
    edge_events,     \* Events<CreateEdgeVisual>, every event sent so far
    edge_preceded,   \* per CreateEdgeVisual: the node ids whose CreateNodeVisual was sent before it
    node_cursor,     \* how many CreateNodeVisual create_node_visual has read
    edge_cursor,     \* how many CreateEdgeVisual create_edge_visual has read
    deferred,        \* the spawn commands queued and not yet applied
    node_visuals,    \* the node ids of the entities with NodeVisual
    edge_visuals,    \* the edge ids of the entities with EdgeVisual
    ran              \* the morphism systems that have run in this frame

coreVars == <<capacity, domain_to_bevy, bevy_to_domain, caller, cons, sent, cur,
          done, events, domain_events, viz_commands, emitted, accepted,
          delivered, pdeSnapshot, pdeBase, cmdAccepted, cmdReceived,
          send_command_result, try_recv_err>>

functorVars == <<fn_input, visual_bundle, command>>

\* What the bridge's operations leave alone: the other modules' state.
natsVars == <<event_receiver, world, nats_cur, nats_sent, deleted_ids,
              drained_events>>

visualVars == <<node_channel, host_events, create_events, last_read, scene>>

streamVars == <<now, max_events, nats_channel, event_store, unread_events,
                event_visuals, frame_cur, stream_arrived, stream_written>>

handlerVars == <<nodes, move_events, moved_events, move_trace, select_events,
                 selected_events, deselected_events, select_trace>>

statsVars == <<statistics, update_calls>>

morphVars == <<node_events, edge_events, edge_preceded, node_cursor,
               edge_cursor, deferred, node_visuals, edge_visuals, ran>>

otherVars == <<functorVars, natsVars, visualVars, streamVars, handlerVars,
               statsVars, morphVars>>

\* What the operations of one module leave alone.
laterVars == <<handlerVars, statsVars, morphVars>>
exceptFunctor == <<coreVars, natsVars, visualVars, streamVars, laterVars>>
exceptNats == <<coreVars, functorVars, visualVars, streamVars, laterVars>>
exceptVisual == <<coreVars, functorVars, natsVars, streamVars, laterVars>>
exceptStream == <<coreVars, functorVars, natsVars, visualVars, laterVars>>
exceptHandlers == <<coreVars, functorVars, natsVars, visualVars, streamVars,
                    statsVars, morphVars>>
exceptStats == <<coreVars, functorVars, natsVars, visualVars, streamVars,
                 handlerVars, morphVars>>
exceptMorphisms == <<coreVars, functorVars, natsVars, visualVars, streamVars,
                     handlerVars, statsVars>>

vars == <<coreVars, otherVars>>

bridgeVars == <<capacity, domain_to_bevy, bevy_to_domain>>
tickVars == <<cur, done, events, domain_events, viz_commands, emitted>>
drainHist == <<delivered, pdeSnapshot, pdeBase, try_recv_err>>
cmdHist == <<cmdAccepted, cmdReceived, send_command_result>>

Range(s) == {s[i] : i \in DOMAIN s}

\* ------------------------------------------------------ channel endpoints
\* Sender handles of domain_to_bevy: the bridge's own field plus the clones.
DomainSenders == 1 + Cardinality({p \in Producers : caller[p] \in {"idle", "blocked"}})

\* Receiver handles of domain_to_bevy: the bridge's own field, never cloned out.
DomainReceivers == 1

\* Sender handles of bevy_to_domain: the bridge's own field, never cloned out.
CommandSenders == 1

\* Receiver handles of bevy_to_domain: the bridge's own field plus the clones.
CommandReceivers == 1 + Cardinality({c \in CommandConsumers : cons[c] = "live"})

\* Mutant: unbounded() for bounded(capacity): the channel is never full.
SendOutcome_Unbounded(queue, receivers) ==
    IF receivers = 0 THEN "Disconnected" ELSE "Ok"

\* crossbeam Sender::send on a bounded channel: an error when every receiver
\* is gone, the message enqueued when there is room, the thread parked else.
SendOutcome(queue, receivers) ==
    IF receivers = 0 THEN "Disconnected"
    ELSE IF Len(queue) < capacity THEN "Ok"
    ELSE "Block"

\* crossbeam Receiver::try_recv: the oldest message, or Empty, or, when the
\* queue is empty and every sender is gone, Disconnected.
TryRecvOutcome(queue, senders) ==
    IF queue # <<>> THEN "Ok"
    ELSE IF senders = 0 THEN "Disconnected"
    ELSE "Empty"

\* The domain side has dropped every sender / receiver clone it obtained.
SendersAllDropped ==
    /\ \E p \in Producers : caller[p] = "dropped"
    /\ \A p \in Producers : caller[p] \in {"none", "dropped"}

ReceiversAllDropped ==
    /\ \E c \in CommandConsumers : cons[c] = "dropped"
    /\ \A c \in CommandConsumers : cons[c] \in {"none", "dropped"}

\* ------------------------------------------------------------------- Init
\* CategoricalBridge::new(capacity), capacity >= 1: two empty bounded
\* channels; no clone of an endpoint has been handed out yet.
BridgeInit ==
    /\ capacity \in 1..MaxCapacity
    /\ domain_to_bevy = <<>>
    /\ bevy_to_domain = <<>>
    /\ caller = [p \in Callers |-> IF p = TickCaller THEN "idle" ELSE "none"]
    /\ cons = [c \in CommandConsumers |-> "none"]
    /\ sent = [p \in Callers |-> 0]
    /\ cur = "none"
    /\ done = {}
    /\ events = <<>>
    /\ domain_events = <<>>
    /\ viz_commands = <<>>
    /\ emitted = 0
    /\ accepted = <<>>
    /\ delivered = <<>>
    /\ pdeSnapshot = <<>>
    /\ pdeBase = 0
    /\ cmdAccepted = <<>>
    /\ cmdReceived = <<>>
    /\ send_command_result = "none"
    /\ try_recv_err = "none"

\* No functor has been applied, and nothing is there to apply one to.
FunctorRest ==
    /\ fn_input = <<>>
    /\ visual_bundle = <<>>
    /\ command = <<>>

\* No component event has arrived and no entity has been spawned.
NatsRest ==
    /\ event_receiver = <<>>
    /\ world = <<>>
    /\ nats_cur = "idle"
    /\ nats_sent = 0
    /\ deleted_ids = {}
    /\ drained_events = <<>>

\* Nothing was sent, no reader has read anything, the scene has no node.
VisualRest ==
    /\ node_channel = <<>>
    /\ host_events = <<>>
    /\ create_events = <<>>
    /\ last_read = [r \in DomainEventReaders \cup CreateNodeReaders |-> 0]
    /\ scene = <<>>

\* No event has arrived; the first frame has not started.
StreamIdle ==
    /\ now = 0
    /\ nats_channel = <<>>
    /\ event_store = <<>>
    /\ unread_events = <<>>
    /\ event_visuals = <<>>
    /\ frame_cur = "process_incoming_events"
    /\ stream_arrived = <<>>
    /\ stream_written = <<>>

StreamRest ==
    /\ max_events = 1
    /\ StreamIdle

\* No node entity exists and no command has been sent.
HandlerRest ==
    /\ nodes = <<>>
    /\ move_events = <<>>
    /\ moved_events = <<>>
    /\ move_trace = <<>>
    /\ select_events = <<>>
    /\ selected_events = <<>>
    /\ deselected_events = <<>>
    /\ select_trace = <<>>

\* EventStatistics::default(): zero events, empty maps.
StatsRest ==
    /\ statistics = [total_events |-> 0,
                     events_by_domain |-> <<>>,
                     events_by_type |-> <<>>,
                     events_by_aggregate |-> <<>>,
                     correlation_chains |-> <<>>]
    /\ update_calls = <<>>

\* No morphism event has been sent and no visual exists.
MorphRest ==
    /\ node_events = <<>>
    /\ edge_events = <<>>
    /\ edge_preceded = <<>>
    /\ node_cursor = 0
    /\ edge_cursor = 0
    /\ deferred = <<>>
    /\ node_visuals = {}
    /\ edge_visuals = {}
    /\ ran = {}

LaterRest == HandlerRest /\ StatsRest /\ MorphRest

Init ==
    /\ BridgeInit
    /\ FunctorRest
    /\ NatsRest
    /\ VisualRest
    /\ StreamRest
    /\ LaterRest

\* Sends issued so far: those enqueued and those still parked.
Issued == Len(accepted) + Cardinality({p \in Callers : caller[p] = "blocked"})

\* Messages of the run so far, both directions together.
Traffic == Issued + emitted

\* ------------------------------------------------- domain side: producers
\* domain_sender(): a clone of the sending half of domain_to_bevy.
DomainSender(p) ==
    /\ caller[p] = "none"
    /\ caller' = [caller EXCEPT ![p] = "idle"]
    /\ UNCHANGED <<bridgeVars, cons, sent, tickVars, accepted, drainHist,
                   cmdHist>>
    /\ UNCHANGED otherVars

\* Sender::send(e) by caller p as the call is made: enqueue, park, or fail.
IssueSend(p, e) ==
    LET out == SendOutcome(domain_to_bevy, DomainReceivers) IN
    /\ sent' = [sent EXCEPT ![p] = @ + 1]
    /\ IF out = "Ok"
       THEN /\ domain_to_bevy' = Append(domain_to_bevy, e)
            /\ accepted' = Append(accepted, e)
            /\ caller' = caller
       ELSE IF out = "Block"
       THEN /\ caller' = [caller EXCEPT ![p] = "blocked"]
            /\ UNCHANGED <<domain_to_bevy, accepted>>
       ELSE \* Disconnected: the error is printed or ignored, the event lost
            UNCHANGED <<domain_to_bevy, accepted, caller>>

\* sender.send(event) on a clone obtained from domain_sender().
ProducerSend(p) ==
    /\ caller[p] = "idle"
    /\ Traffic < MaxTraffic
    /\ IssueSend(p, <<p, sent[p] + 1>>)
    /\ UNCHANGED <<capacity, bevy_to_domain, cons, tickVars, drainHist, cmdHist>>
    /\ UNCHANGED otherVars

\* A parked send goes through once the channel has room; for the tick
\* thread, send_domain_event then returns and its system ends.
SendUnblock(p) ==
    /\ caller[p] = "blocked"
    /\ Len(domain_to_bevy) < capacity
    /\ domain_to_bevy' = Append(domain_to_bevy, <<p, sent[p]>>)
    /\ accepted' = Append(accepted, <<p, sent[p]>>)
    /\ caller' = [caller EXCEPT ![p] = "idle"]
    /\ IF p = TickCaller
       THEN /\ cur' = "none"
            /\ done' = done \cup {"app"}
       ELSE UNCHANGED <<cur, done>>
    /\ UNCHANGED <<capacity, bevy_to_domain, cons, sent, events, domain_events,
                   viz_commands, emitted, drainHist, cmdHist>>
    /\ UNCHANGED otherVars

\* The producer drops its Sender clone.
ProducerDrop(p) ==
    /\ caller[p] = "idle"
    /\ caller' = [caller EXCEPT ![p] = "dropped"]
    /\ UNCHANGED <<bridgeVars, cons, sent, tickVars, accepted, drainHist,
                   cmdHist>>
    /\ UNCHANGED otherVars

\* ------------------------------------------------- domain side: consumers
\* command_receiver(): a clone of the receiving half of bevy_to_domain.
CommandReceiver(c) ==
    /\ cons[c] = "none"
    /\ cons' = [cons EXCEPT ![c] = "live"]
    /\ UNCHANGED <<bridgeVars, caller, sent, tickVars, accepted, drainHist,
                   cmdHist>>
    /\ UNCHANGED otherVars

\* The domain task takes the oldest command from its receiver.
ConsumerRecv(c) ==
    /\ cons[c] = "live"
    /\ bevy_to_domain # <<>>
    /\ cmdReceived' = Append(cmdReceived, Head(bevy_to_domain))
    /\ bevy_to_domain' = Tail(bevy_to_domain)
    /\ UNCHANGED <<capacity, domain_to_bevy, caller, cons, sent, tickVars,
                   accepted, drainHist, cmdAccepted, send_command_result>>
    /\ UNCHANGED otherVars

\* The domain task drops its Receiver clone.
ConsumerDrop(c) ==
    /\ cons[c] = "live"
    /\ cons' = [cons EXCEPT ![c] = "dropped"]
    /\ UNCHANGED <<bridgeVars, caller, sent, tickVars, accepted, drainHist,
                   cmdHist>>
    /\ UNCHANGED otherVars

\* ------------------------------------- tick thread: process_domain_events
\* The system starts: receive_domain_events begins with an empty Vec.
PdeStart ==
    /\ cur = "none"
    /\ "pde" \notin done
    /\ cur' = "pde_recv"
    /\ events' = <<>>
    /\ pdeSnapshot' = domain_to_bevy
    /\ pdeBase' = Len(accepted)
    /\ UNCHANGED <<bridgeVars, caller, cons, sent, done, domain_events,
                   viz_commands, emitted, accepted, delivered, try_recv_err,
                   cmdHist>>
    /\ UNCHANGED otherVars

\* Mutant: the loop body puts the event at the front of the Vec.
PdeRecv_InsertFront ==
    /\ cur = "pde_recv"
    /\ TryRecvOutcome(domain_to_bevy, DomainSenders) = "Ok"
    /\ events' = <<Head(domain_to_bevy)>> \o events
    /\ domain_to_bevy' = Tail(domain_to_bevy)
    /\ UNCHANGED <<capacity, bevy_to_domain, caller, cons, sent, cur, done,
                   domain_events, viz_commands, emitted, accepted, drainHist,
                   cmdHist>>
    /\ UNCHANGED otherVars

\* One iteration of `while let Ok(event) = try_recv()`: push the event.
PdeRecv ==
    /\ cur = "pde_recv"
    /\ TryRecvOutcome(domain_to_bevy, DomainSenders) = "Ok"
    /\ events' = Append(events, Head(domain_to_bevy))
    /\ domain_to_bevy' = Tail(domain_to_bevy)
    /\ UNCHANGED <<capacity, bevy_to_domain, caller, cons, sent, cur, done,
                   domain_events, viz_commands, emitted, accepted, drainHist,
                   cmdHist>>
    /\ UNCHANGED otherVars

\* Mutant: `if let` for `while let`: the drain returns after one event.
PdeReturn_IfLet ==
    /\ cur = "pde_recv"
    /\ events # <<>> \/ TryRecvOutcome(domain_to_bevy, DomainSenders) # "Ok"
    /\ cur' = "pde_write"
    /\ delivered' = delivered \o events
    /\ try_recv_err' = TryRecvOutcome(domain_to_bevy, DomainSenders)
    /\ UNCHANGED <<bridgeVars, caller, cons, sent, done, events, domain_events,
                   viz_commands, emitted, accepted, pdeSnapshot, pdeBase,
                   cmdHist>>
    /\ UNCHANGED otherVars

\* try_recv fails (Empty or Disconnected): the loop ends and the Vec is
\* returned; `while let Ok` discards the error.
PdeReturn ==
    /\ cur = "pde_recv"
    /\ TryRecvOutcome(domain_to_bevy, DomainSenders) # "Ok"
    /\ cur' = "pde_write"
    /\ delivered' = delivered \o events
    /\ try_recv_err' = TryRecvOutcome(domain_to_bevy, DomainSenders)
    /\ UNCHANGED <<bridgeVars, caller, cons, sent, done, events, domain_events,
                   viz_commands, emitted, accepted, pdeSnapshot, pdeBase,
                   cmdHist>>
    /\ UNCHANGED otherVars

\* Mutant: the loop over the drained events skips the first one.
PdeWrite_SkipsFirst ==
    /\ cur = "pde_write"
    /\ domain_events' = domain_events \o (IF events = <<>> THEN <<>> ELSE Tail(events))
    /\ events' = <<>>
    /\ pdeSnapshot' = <<>>
    /\ pdeBase' = 0
    /\ cur' = "none"
    /\ done' = done \cup {"pde"}
    /\ UNCHANGED <<bridgeVars, caller, cons, sent, viz_commands, emitted,
                   accepted, delivered, try_recv_err, cmdHist>>
    /\ UNCHANGED otherVars

\* `for event in events { domain_events.write(event) }`, and the system ends.
PdeWrite ==
    /\ cur = "pde_write"
    /\ domain_events' = domain_events \o events
    /\ events' = <<>>
    /\ pdeSnapshot' = <<>>
    /\ pdeBase' = 0
    /\ cur' = "none"
    /\ done' = done \cup {"pde"}
    /\ UNCHANGED <<bridgeVars, caller, cons, sent, viz_commands, emitted,
                   accepted, delivered, try_recv_err, cmdHist>>
    /\ UNCHANGED otherVars

\* ------------------------------------------- tick thread: application
\* An application system that does nothing this tick.
AppIdle ==
    /\ cur = "none"
    /\ "app" \notin done
    /\ done' = done \cup {"app"}
    /\ UNCHANGED <<bridgeVars, caller, cons, sent, cur, events, domain_events,
                   viz_commands, emitted, accepted, drainHist, cmdHist>>
    /\ UNCHANGED otherVars

\* An application system writes k VisualizationCommands to the host queue.
AppEmitCommands(k) ==
    /\ cur = "none"
    /\ "app" \notin done
    /\ emitted + k <= MaxCommands
    /\ Traffic + k <= MaxTraffic
    /\ viz_commands' = viz_commands \o [i \in 1..k |-> emitted + i]
    /\ emitted' = emitted + k
    /\ done' = done \cup {"app"}
    /\ UNCHANGED <<bridgeVars, caller, cons, sent, cur, events, domain_events,
                   accepted, drainHist, cmdHist>>
    /\ UNCHANGED otherVars

\* bridge.send_domain_event(event) called by a system of the tick thread:
\* self.domain_sender().send(event), an error only printed.
SendDomainEvent ==
    /\ cur = "none"
    /\ "app" \notin done
    /\ Traffic < MaxTraffic
    /\ IssueSend(TickCaller, <<TickCaller, sent[TickCaller] + 1>>)
    /\ IF SendOutcome(domain_to_bevy, DomainReceivers) = "Block"
       THEN /\ cur' = "app_send"
            /\ done' = done
       ELSE /\ cur' = "none"
            /\ done' = done \cup {"app"}
    /\ UNCHANGED <<capacity, bevy_to_domain, cons, events, domain_events,
                   viz_commands, emitted, drainHist, cmdHist>>
    /\ UNCHANGED otherVars

\* ------------------------------- tick thread: send_visualization_commands
\* The system starts: the reader iterates over the unread commands.
SvcStart ==
    /\ cur = "none"
    /\ "svc" \notin done
    /\ cur' = "svc"
    /\ UNCHANGED <<bridgeVars, caller, cons, sent, done, events, domain_events,
                   viz_commands, emitted, accepted, drainHist, cmdHist>>
    /\ UNCHANGED otherVars

\* Mutant: send_command sends the command and a clone of it.
CommandEnqueued_SentTwice(c) ==
    /\ bevy_to_domain' = bevy_to_domain \o <<c, c>>
    /\ cmdAccepted' = Append(cmdAccepted, c)
    /\ viz_commands' = Tail(viz_commands)
    /\ send_command_result' = "Ok"

\* send_command(c) returns Ok(()): the command is in the channel.
CommandEnqueued(c) ==
    /\ bevy_to_domain' = Append(bevy_to_domain, c)
    /\ cmdAccepted' = Append(cmdAccepted, c)
    /\ viz_commands' = Tail(viz_commands)
    /\ send_command_result' = "Ok"

\* One iteration of `for cmd in viz_commands.read()`: send_command(cmd.clone()),
\* which is bevy_to_domain.0.send(command) with any error mapped to
\* ChannelDisconnected, then printed by the system.
SvcSend ==
    /\ cur = "svc"
    /\ viz_commands # <<>>
    /\ LET c == Head(viz_commands)
           out == SendOutcome(bevy_to_domain, CommandReceivers) IN
       IF out = "Ok"
       THEN /\ CommandEnqueued(c)
            /\ cur' = cur
       ELSE IF out = "Block"
       THEN /\ cur' = "svc_send"
            /\ UNCHANGED <<bevy_to_domain, cmdAccepted, viz_commands,
                           send_command_result>>
       ELSE /\ viz_commands' = Tail(viz_commands)
            /\ send_command_result' = "ChannelDisconnected"
            /\ UNCHANGED <<cur, bevy_to_domain, cmdAccepted>>
    /\ UNCHANGED <<capacity, domain_to_bevy, caller, cons, sent, done, events,
                   domain_events, emitted, accepted, drainHist, cmdReceived>>
    /\ UNCHANGED otherVars

\* The parked send_command goes through once the channel has room.
SvcUnblock ==
    /\ cur = "svc_send"
    /\ Len(bevy_to_domain) < capacity
    /\ CommandEnqueued(Head(viz_commands))
    /\ cur' = "svc"
    /\ UNCHANGED <<capacity, domain_to_bevy, caller, cons, sent, done, events,
                   domain_events, emitted, accepted, drainHist, cmdReceived>>
    /\ UNCHANGED otherVars

\* The reader has no more commands: the system ends.
SvcDone ==
    /\ cur = "svc"
    /\ viz_commands = <<>>
    /\ cur' = "none"
    /\ done' = done \cup {"svc"}
    /\ UNCHANGED <<bridgeVars, caller, cons, sent, events, domain_events,
                   viz_commands, emitted, accepted, drainHist, cmdHist>>
    /\ UNCHANGED otherVars

\* Every system has run: the frame ends and the host clears its event buffer.
TickEnd ==
    /\ cur = "none"
    /\ done = Systems
    /\ done' = {}
    /\ domain_events' = <<>>
    /\ UNCHANGED <<bridgeVars, caller, cons, sent, cur, events, viz_commands,
                   emitted, accepted, drainHist, cmdHist>>
    /\ UNCHANGED otherVars

Next ==
    \/ \E p \in Producers : DomainSender(p)
    \/ \E p \in Producers : ProducerSend(p)
    \/ \E p \in Callers : SendUnblock(p)
    \/ \E p \in Producers : ProducerDrop(p)
    \/ \E c \in Consumers : CommandReceiver(c)
    \/ \E c \in Consumers : ConsumerRecv(c)
    \/ \E c \in Consumers : ConsumerDrop(c)
    \/ PdeStart
    \/ PdeRecv
    \/ PdeReturn
    \/ PdeWrite
    \/ AppIdle
    \/ \E k \in 1..MaxCommands : AppEmitCommands(k)
    \/ SendDomainEvent
    \/ SvcStart
    \/ SvcSend
    \/ SvcUnblock
    \/ SvcDone
    \/ TickEnd

Spec == Init /\ [][Next]_vars

\* The command direction by itself: the tick thread's systems (events come
\* from send_domain_event only) and two domain tasks that each hold a clone
\* of command_receiver().  With no other thread to drain domain_to_bevy, a
\* send_domain_event that finds it full parks the tick thread for good.
NextCommands ==
    \/ \E c \in CommandConsumers : CommandReceiver(c)
    \/ \E c \in CommandConsumers : ConsumerRecv(c)
    \/ \E c \in CommandConsumers : ConsumerDrop(c)
    \/ PdeStart
    \/ PdeRecv
    \/ PdeReturn
    \/ PdeWrite
    \/ AppIdle
    \/ \E k \in 1..MaxCommands : AppEmitCommands(k)
    \/ SendDomainEvent
    \/ SvcStart
    \/ SvcSend
    \/ SvcUnblock
    \/ SvcDone
    \/ TickEnd

SpecCommands == Init /\ [][NextCommands]_vars

\* ================================================================ functors
\* The inputs of the round trip: any node id, graph id and position.
InitFunctor ==
    /\ LaterRest
    /\ BridgeInit
    /\ \E n \in NodeIds, g \in GraphIds, p \in Vec3 :
         fn_input = <<[node_id |-> n, graph_id |-> g, position |-> p]>>
    /\ visual_bundle = <<>>
    /\ command = <<>>
    /\ NatsRest
    /\ VisualRest
    /\ StreamRest

\* Mutant: the bundle is built with Transform::default().
NodeVisualBundle_default(node_id, graph_id, position) ==
    [node |-> [node_id |-> node_id, graph_id |-> graph_id],
     transform |-> [translation |-> <<0, 0, 0>>]]

\* NodeVisualBundle::new: the NodeVisual identity and a Transform whose
\* translation is the position (the visibility fields are defaults).
NodeVisualBundle_new(node_id, graph_id, position) ==
    [node |-> [node_id |-> node_id, graph_id |-> graph_id],
     transform |-> [translation |-> position]]

\* VisualToDomainFunctor::map_position_change; graph_id is what GraphId::new()
\* generated inside the call.
map_position_change(node_id, new_position, graph_id) ==
    [kind |-> "UpdateNodePosition", graph_id |-> graph_id,
     node_id |-> node_id, position |-> new_position]

\* F: DomainToVisualFunctor::map_node, which is NodeVisualBundle::new.
MapNode ==
    /\ fn_input # <<>>
    /\ visual_bundle = <<>>
    /\ visual_bundle' = <<NodeVisualBundle_new(fn_input[1].node_id,
                                               fn_input[1].graph_id,
                                               fn_input[1].position)>>
    /\ UNCHANGED <<exceptFunctor, fn_input, command>>

\* G on the bundle's node id and translation, with a newly generated GraphId.
MapPositionChange ==
    /\ visual_bundle # <<>>
    /\ command = <<>>
    /\ \E fresh \in GraphIds :
         command' = <<map_position_change(visual_bundle[1].node.node_id,
                                          visual_bundle[1].transform.translation,
                                          fresh)>>
    /\ UNCHANGED <<exceptFunctor, fn_input, visual_bundle>>

NextFunctor ==
    \/ MapNode
    \/ MapPositionChange

SpecFunctor == InitFunctor /\ [][NextFunctor]_vars

\* ===================================================== NATS component sync
\* serde_json values carried as EcsComponentData.data: the object's field
\* names and the values of the fields the helper structs read.
PositionJson(p) == [fields |-> {"x", "y", "z"}, xyz |-> p, text |-> ""]
LabelJson(t) == [fields |-> {"text"}, xyz |-> <<0, 0, 0>>, text |-> t]
JsonNull == [fields |-> {}, xyz |-> <<0, 0, 0>>, text |-> ""]
\* The payloads of Added/Updated events: under a component type of the other
\* struct, each of them is a payload that does not deserialise.
JsonValues ==
    {PositionJson(<<1, 2, 0>>), PositionJson(<<0, 1, 2>>), LabelJson("A")}

\* EcsComponentData { component_type, data }.
EcsComponentData == [component_type : ComponentTypes, data : JsonValues]

\* ComponentEvent::{Added, Updated} { entity_id, component_data } and
\* ComponentEvent::Removed { entity_id, component_type }.
ComponentEvents ==
    [kind : {"Added", "Updated"}, entity_id : EntityIds,
     component_data : EcsComponentData]
    \cup [kind : {"Removed"}, entity_id : EntityIds,
          component_data : {[component_type |-> "Label", data |-> JsonNull]}]

\* Mutant: the fields are read in the order z, y, x.
from_value_Position3D_zyx(data) ==
    IF {"x", "y", "z"} \subseteq data.fields
    THEN <<[x |-> data.xyz[3], y |-> data.xyz[2], z |-> data.xyz[1]]>>
    ELSE <<>>

\* serde_json::from_value::<Position3D>: Ok when the object has x, y and z.
from_value_Position3D(data) ==
    IF {"x", "y", "z"} \subseteq data.fields
    THEN <<[x |-> data.xyz[1], y |-> data.xyz[2], z |-> data.xyz[3]]>>
    ELSE <<>>

\* serde_json::from_value::<LabelData>: Ok when the object has text.
from_value_LabelData(data) ==
    IF "text" \in data.fields THEN <<[text |-> data.text]>> ELSE <<>>

\* An entity spawned with (NatsSyncedEntity { entity_id },
\* PendingComponentUpdate { component_data }) and nothing else.
SyncedEntity(entity_id, component_data) ==
    [alive |-> TRUE, synced |-> <<entity_id>>, pending |-> <<component_data>>,
     transform |-> <<>>, name |-> <<>>]

\* The entities Query<(Entity, &NatsSyncedEntity)> yields for an entity_id.
SyncedMatches(w, entity_id) ==
    {i \in DOMAIN w : w[i].alive /\ w[i].synced = <<entity_id>>}

\* What `query.iter().find(..)` can return for each entity_id: one of the
\* matching entities (the iteration order of a query is not specified),
\* 0 standing for None.
FindChoices(w) ==
    {pick \in [EntityIds -> 0..Len(w)] :
       \A id \in EntityIds :
         IF SyncedMatches(w, id) = {} THEN pick[id] = 0
         ELSE pick[id] \in SyncedMatches(w, id)}

\* The subscription task forwards a decoded ComponentEvent: tx.send(event).
\* The domain publishes nothing more for an entity it has deleted.
NatsForward(e) ==
    /\ nats_sent < MaxNatsEvents
    /\ e.entity_id \notin deleted_ids
    /\ event_receiver' = Append(event_receiver, e)
    /\ nats_sent' = nats_sent + 1
    /\ UNCHANGED <<exceptNats, world, nats_cur, deleted_ids, drained_events>>

\* The application spawns an entity for a new id with the sync marker and a
\* pending update, between two app updates.
SpawnSynced(entity_id, component_data) ==
    /\ nats_cur = "idle"
    /\ nats_sent < MaxNatsEvents
    /\ entity_id \notin deleted_ids
    /\ \A i \in DOMAIN world : world[i].synced # <<entity_id>>
    /\ \A i \in DOMAIN event_receiver : event_receiver[i].entity_id # entity_id
    /\ world' = Append(world, SyncedEntity(entity_id, component_data))
    /\ nats_sent' = nats_sent + 1
    /\ UNCHANGED <<exceptNats, event_receiver, nats_cur, deleted_ids,
                   drained_events>>

\* The entity of a deleted domain entity is despawned, between two app updates.
DespawnSynced(i) ==
    /\ nats_cur = "idle"
    /\ i \in DOMAIN world
    /\ world[i].alive
    /\ world' = [world EXCEPT ![i].alive = FALSE]
    /\ deleted_ids' = deleted_ids \cup {world[i].synced[1]}
    /\ UNCHANGED <<exceptNats, event_receiver, nats_cur, nats_sent,
                   drained_events>>

\* Mutant: the lookup is skipped and every Added/Updated event spawns.
ProcessOne_AlwaysSpawn(e, snapshot, w, pick) ==
    IF e.kind = "Removed" THEN w
    ELSE Append(w, SyncedEntity(e.entity_id, e.component_data))

\* The body of `for event in events` for one event, the command it queues
\* being applied to w: the lookup reads the world as it was when the system
\* started (snapshot), because Commands are deferred to the end of the system.
ProcessOne(e, snapshot, w, pick) ==
    IF e.kind = "Removed" THEN w
    ELSE IF pick[e.entity_id] # 0
    THEN [w EXCEPT ![pick[e.entity_id]].pending = <<e.component_data>>]
    ELSE Append(w, SyncedEntity(e.entity_id, e.component_data))

RECURSIVE ProcessEvents(_, _, _, _)
ProcessEvents(evs, snapshot, w, pick) ==
    IF evs = <<>> THEN w
    ELSE ProcessEvents(Tail(evs), snapshot,
                       ProcessOne(Head(evs), snapshot, w, pick), pick)

\* process_nats_component_events, with the command flush that follows it in
\* the chain: receive_events drains the channel, every event is handled
\* against the same view of the world, the queued commands are applied in
\* order.
ProcessNatsComponentEvents ==
    /\ nats_cur = "idle"
    /\ \E pick \in FindChoices(world) :
         world' = ProcessEvents(event_receiver, world, world, pick)
    /\ event_receiver' = <<>>
    /\ drained_events' = event_receiver
    /\ nats_cur' = "processed"
    /\ UNCHANGED <<exceptNats, nats_sent, deleted_ids>>

\* Mutant: the marker is removed inside the `if let Ok`, so it stays when
\* the type is not mapped or the payload does not deserialise.
ApplyOne_RemoveOnSuccess(ent) ==
    LET cd == ent.pending[1] IN
    IF cd.component_type = "Position3D" /\ from_value_Position3D(cd.data) # <<>>
    THEN LET pos == from_value_Position3D(cd.data)[1] IN
         [ent EXCEPT !.transform = <<<<pos.x, pos.y, pos.z>>>>, !.pending = <<>>]
    ELSE IF cd.component_type = "Label" /\ from_value_LabelData(cd.data) # <<>>
    THEN [ent EXCEPT !.name = <<from_value_LabelData(cd.data)[1].text>>,
                     !.pending = <<>>]
    ELSE ent

\* The body of the loop of apply_component_updates for one entity, its
\* commands applied: the component is inserted when the type is mapped and
\* the payload deserialises, and the marker is removed in every case.
ApplyOne(ent) ==
    LET cd == ent.pending[1] IN
    IF cd.component_type = "Position3D" /\ from_value_Position3D(cd.data) # <<>>
    THEN LET pos == from_value_Position3D(cd.data)[1] IN
         [ent EXCEPT !.transform = <<<<pos.x, pos.y, pos.z>>>>, !.pending = <<>>]
    ELSE IF cd.component_type = "Label" /\ from_value_LabelData(cd.data) # <<>>
    THEN [ent EXCEPT !.name = <<from_value_LabelData(cd.data)[1].text>>,
                     !.pending = <<>>]
    ELSE [ent EXCEPT !.pending = <<>>]

\* apply_component_updates over Query<(Entity, &PendingComponentUpdate),
\* With<NatsSyncedEntity>>, with the command flush at the end of the update.
ApplyComponentUpdates ==
    /\ nats_cur = "processed"
    /\ world' = [i \in DOMAIN world |->
                   IF world[i].alive /\ world[i].synced # <<>>
                      /\ world[i].pending # <<>>
                   THEN ApplyOne(world[i]) ELSE world[i]]
    /\ nats_cur' = "idle"
    /\ drained_events' = <<>>
    /\ UNCHANGED <<exceptNats, event_receiver, nats_sent, deleted_ids>>

NextNats ==
    \/ \E e \in ComponentEvents : NatsForward(e)
    \/ \E id \in EntityIds, cd \in EcsComponentData : SpawnSynced(id, cd)
    \/ \E i \in 1..MaxNatsEvents : DespawnSynced(i)
    \/ ProcessNatsComponentEvents
    \/ ApplyComponentUpdates

\* The bridge plays no part here: one capacity is enough.
InitNats == Init /\ capacity = 1

SpecNats == InitNats /\ [][NextNats]_vars

\* The application has spawned, at startup, an entity that is synced via
\* NATS: Transform, NatsSyncedEntity and Name, no pending update.
InitNatsDemo ==
    /\ LaterRest
    /\ BridgeInit /\ capacity = 1
    /\ FunctorRest
    /\ VisualRest
    /\ StreamRest
    /\ event_receiver = <<>>
    /\ world = <<[alive |-> TRUE, synced |-> <<"u1">>, pending |-> <<>>,
                  transform |-> <<<<0, 0, 0>>>>, name |-> <<"Synced Entity 1">>]>>
    /\ nats_cur = "idle"
    /\ nats_sent = 0
    /\ deleted_ids = {}
    /\ drained_events = <<>>

SpecNatsDemo == InitNatsDemo /\ [][NextNats]_vars

\* ============================================ node visuals of visual_demo
\* DomainEvent::NodeAdded { graph_id, node_id, position: Option<Vec3>, .. }.
NodeAddedEvents ==
    [kind : {"NodeAdded"}, graph_id : {"g1"}, node_id : NodeIds,
     position : {<<>>, <<<<1, 2, 0>>>>, <<<<0, 0, 1>>>>}]

\* Translations in the scene are kept in eighths of a unit, which is what
\* the animation's easing produces.
Eighths(v) == <<8 * v[1], 8 * v[2], 8 * v[3]>>

\* ease_out_cubic(t) = 1 - (1 - t)^3 for t = halves / 2, in eighths.
ease_out_cubic(halves) == 8 - (2 - halves) * (2 - halves) * (2 - halves)

\* start.lerp(target, t) for t = t8 / 8, on translations in eighths whose
\* start is nowhere below the target.
Lerp(start, target, t8) ==
    [k \in 1..3 |-> start[k] - ((start[k] - target[k]) * t8) \div 8]

\* The node ids for which a NodeAdded was already sent.
NodesSent ==
    {node_channel[i].node_id : i \in DOMAIN node_channel}
    \cup {host_events[i].node_id : i \in DOMAIN host_events}

\* The domain adds a node: sender.send(DomainEvent::NodeAdded {..}) on a
\* clone of domain_sender(), which waits while the channel is full.
SendNodeAdded(e) ==
    /\ e.node_id \notin NodesSent
    /\ Len(node_channel) < capacity
    /\ node_channel' = Append(node_channel, e)
    /\ UNCHANGED <<exceptVisual, host_events, create_events, last_read, scene>>

\* process_domain_events as a whole: drain the channel, write every event.
DrainNodeEvents ==
    /\ node_channel # <<>>
    /\ host_events' = host_events \o node_channel
    /\ node_channel' = <<>>
    /\ UNCHANGED <<exceptVisual, create_events, last_read, scene>>

\* The NodeAdded arm of handle_domain_events.
CreateNodeVisualOf(e) ==
    [graph_id |-> e.graph_id, node_id |-> e.node_id,
     position |-> IF e.position = <<>> THEN <<0, 0, 0>> ELSE e.position[1]]

\* handle_domain_events: every DomainEvent not yet read is turned into the
\* creation event of its kind.
HandleDomainEvents ==
    LET r == "handle_domain_events"
        unread == SubSeq(host_events, last_read[r] + 1, Len(host_events)) IN
    /\ unread # <<>>
    /\ create_events' = create_events
                          \o [i \in DOMAIN unread |-> CreateNodeVisualOf(unread[i])]
    /\ last_read' = [last_read EXCEPT ![r] = Len(host_events)]
    /\ UNCHANGED <<exceptVisual, node_channel, host_events, scene>>

\* A spawned visual entity: the bundle's identity, its translation, and the
\* AnimatedTransition if it has one.
VisualEntity(bundle, transition, by) ==
    [node_id |-> bundle.node.node_id, graph_id |-> bundle.node.graph_id,
     translation |-> Eighths(bundle.transform.translation),
     transition |-> transition, spawned_by |-> by]

\* create_node_visual of the plugin: one NodeVisualBundle per unread event,
\* with a newly generated graph id; its commands applied.
CreateNodeVisual ==
    LET r == "create_node_visual"
        unread == SubSeq(create_events, last_read[r] + 1, Len(create_events)) IN
    /\ unread # <<>>
    /\ \E fresh \in GraphIds :
         scene' = scene \o
           [i \in DOMAIN unread |->
              VisualEntity(NodeVisualBundle_new(unread[i].node_id, fresh,
                                                unread[i].position), <<>>, r)]
    /\ last_read' = [last_read EXCEPT ![r] = Len(create_events)]
    /\ UNCHANGED <<exceptVisual, node_channel, host_events, create_events>>

\* handle_node_creation of the demo: one NodeVisualBundle with mesh,
\* material and AnimatedTransition per unread event; its commands applied.
HandleNodeCreation ==
    LET r == "handle_node_creation"
        unread == SubSeq(create_events, last_read[r] + 1, Len(create_events)) IN
    /\ unread # <<>>
    /\ scene' = scene \o
         [i \in DOMAIN unread |->
            VisualEntity(
              NodeVisualBundle_new(unread[i].node_id, unread[i].graph_id,
                                   unread[i].position),
              <<[start_position |->
                   Eighths(<<unread[i].position[1], unread[i].position[2] + 10,
                             unread[i].position[3]>>),
                 target_position |-> Eighths(unread[i].position),
                 progress |-> 0]>>,
              r)]
    /\ last_read' = [last_read EXCEPT ![r] = Len(create_events)]
    /\ UNCHANGED <<exceptVisual, node_channel, host_events, create_events>>

\* animate_nodes in a frame whose delta is `halves` halves of the duration:
\* every unfinished transition advances and sets the translation.
AnimateNodes(halves) ==
    /\ \E i \in DOMAIN scene :
         scene[i].transition # <<>> /\ scene[i].transition[1].progress < 2
    /\ scene' =
         [i \in DOMAIN scene |->
            IF scene[i].transition # <<>> /\ scene[i].transition[1].progress < 2
            THEN LET tr == scene[i].transition[1]
                     progress == IF tr.progress + halves > 2 THEN 2
                                 ELSE tr.progress + halves
                 IN [scene[i] EXCEPT
                       !.transition = <<[tr EXCEPT !.progress = progress]>>,
                       !.translation = Lerp(tr.start_position, tr.target_position,
                                            ease_out_cubic(progress))]
            ELSE scene[i]]
    /\ UNCHANGED <<exceptVisual, node_channel, host_events, create_events,
                   last_read>>

NextVisual ==
    \/ \E e \in NodeAddedEvents : SendNodeAdded(e)
    \/ DrainNodeEvents
    \/ HandleDomainEvents
    \/ CreateNodeVisual
    \/ HandleNodeCreation
    \/ \E halves \in 1..2 : AnimateNodes(halves)

SpecVisual == Init /\ [][NextVisual]_vars

\* ================================================ NATS event visualization
\* NatsEventVisualizationPlugin::build with some max_events >= 1.
InitStream ==
    /\ LaterRest
    /\ BridgeInit /\ capacity = 1
    /\ FunctorRest
    /\ NatsRest
    /\ VisualRest
    /\ max_events \in 1..MaxStoreEvents
    /\ StreamIdle

\* The clock advances by a second.
ClockTick ==
    /\ now < MaxTime
    /\ now' = now + 1
    /\ UNCHANGED <<exceptStream, max_events, nats_channel, event_store,
                   unread_events, event_visuals, frame_cur, stream_arrived,
                   stream_written>>

\* subscribe_to_domain_events forwards a message: tx.send(event).await, which
\* goes through when the channel has a free slot; the event's timestamp is
\* the time of arrival.
SubscriberSend ==
    /\ Len(stream_arrived) < MaxStreamEvents
    /\ Len(nats_channel) < ChannelSlots
    /\ LET event == [event_id |-> Len(stream_arrived) + 1, timestamp |-> now] IN
       /\ nats_channel' = Append(nats_channel, event)
       /\ stream_arrived' = Append(stream_arrived, event)
    /\ UNCHANGED <<exceptStream, now, max_events, event_store, unread_events,
                   event_visuals, frame_cur, stream_written>>

\* VecDeque::pop_front: an empty deque has nothing to give and stays empty.
pop_front(deque) == IF deque = <<>> THEN <<>> ELSE Tail(deque)

\* EventStore::add_event: the oldest event makes room when the store is full.
add_event(store, event) ==
    Append(IF Len(store) >= max_events THEN pop_front(store) ELSE store, event)

RECURSIVE AddEvents(_, _)
AddEvents(store, taken) ==
    IF taken = <<>> THEN store
    ELSE AddEvents(add_event(store, Head(taken)), Tail(taken))

\* The events the loop `for _ in 0..10 { match try_recv() .. }` receives.
Taken(queue) ==
    SubSeq(queue, 1, IF Len(queue) < BatchPerFrame THEN Len(queue) ELSE BatchPerFrame)

\* Mutant: the loop runs on until try_recv fails, and of the events it
\* receives only the first ten are stored and written.
ProcessIncomingEvents_DropsRest ==
    /\ frame_cur = "process_incoming_events"
    /\ nats_channel' = <<>>
    /\ event_store' = AddEvents(event_store, Taken(nats_channel))
    /\ unread_events' = unread_events \o Taken(nats_channel)
    /\ stream_written' = stream_written \o Taken(nats_channel)
    /\ frame_cur' = "create_event_visuals"
    /\ UNCHANGED <<exceptStream, now, max_events, event_visuals, stream_arrived>>

\* process_incoming_events: up to ten try_recv, each received event stored
\* and written; the rest stays in the channel.
ProcessIncomingEvents ==
    /\ frame_cur = "process_incoming_events"
    /\ nats_channel' = SubSeq(nats_channel, Len(Taken(nats_channel)) + 1,
                              Len(nats_channel))
    /\ event_store' = AddEvents(event_store, Taken(nats_channel))
    /\ unread_events' = unread_events \o Taken(nats_channel)
    /\ stream_written' = stream_written \o Taken(nats_channel)
    /\ frame_cur' = "create_event_visuals"
    /\ UNCHANGED <<exceptStream, now, max_events, event_visuals, stream_arrived>>

\* create_event_visuals: one entity with EventVisual per unread event; its
\* commands applied before the next system of the chain.
CreateEventVisuals ==
    /\ frame_cur = "create_event_visuals"
    /\ event_visuals' = event_visuals \o unread_events
    /\ unread_events' = <<>>
    /\ frame_cur' = "cleanup_old_events"
    /\ UNCHANGED <<exceptStream, now, max_events, nats_channel, event_store,
                   stream_arrived, stream_written>>

\* cleanup_old_events: every entity whose event is older than the retention
\* period is despawned; the frame ends.
CleanupOldEvents ==
    /\ frame_cur = "cleanup_old_events"
    /\ LET Kept(ev) == ~(ev.timestamp + RetentionSeconds < now) IN
       event_visuals' = SelectSeq(event_visuals, Kept)
    /\ frame_cur' = "process_incoming_events"
    /\ UNCHANGED <<exceptStream, now, max_events, nats_channel, event_store,
                   unread_events, stream_arrived, stream_written>>

\* The systems of a frame, in chain order.
FrameStep ==
    \/ ProcessIncomingEvents
    \/ CreateEventVisuals
    \/ CleanupOldEvents

NextStream ==
    \/ ClockTick
    \/ SubscriberSend
    \/ ProcessIncomingEvents
    \/ CreateEventVisuals
    \/ CleanupOldEvents

SpecStream == InitStream /\ [][NextStream]_vars

\* A burst of events within one second of the clock, every system of the
\* chain getting its turn: frames keep running.
NextFrames ==
    \/ SubscriberSend
    \/ ProcessIncomingEvents
    \/ CreateEventVisuals
    \/ CleanupOldEvents

SpecStreamFair == InitStream /\ [][NextFrames]_vars /\ WF_vars(FrameStep)

\* ========================================================= event statistics
\* The fields of a DomainEventReceived that EventStatistics::update reads.
Domains == {"Sales", "Inventory"}
EventTypes == {"OrderPlaced", "StockAdjusted"}
AggregateTypes == {"Order", "Product"}
\* Option<String>: None is <<>>, Some(c) is <<c>>.
CorrelationIds == {<<>>, <<"corr-1">>}

StatEvents ==
    [domain : Domains, event_type : EventTypes,
     aggregate_type : AggregateTypes, correlation_id : CorrelationIds]

\* HashMap::entry(key).or_insert(default)
or_insert(map, key, default) ==
    IF key \in DOMAIN map THEN map ELSE (key :> default) @@ map

\* Mutant: map.insert(key, 1), which forgets the count the key had.
Increment_Insert(map, key) == (key :> 1) @@ map

\* *map.entry(key).or_insert(0) += 1
Increment(map, key) == [or_insert(map, key, 0) EXCEPT ![key] = @ + 1]

\* map.entry(key).or_insert_with(Vec::new).push(item)
PushChain(map, key, item) ==
    [or_insert(map, key, <<>>) EXCEPT ![key] = Append(@, item)]

\* EventStatistics::update. avg_event_size (a floating-point running mean of
\* the payload length) and last_update (the wall clock) are written too and
\* read by none of the counters; they are left out of the record.
EventStatisticsUpdate(fields) ==
    /\ Len(update_calls) < MaxStatEvents
    /\ LET event == [event_id |-> Len(update_calls) + 1,
                     domain |-> fields.domain,
                     event_type |-> fields.event_type,
                     aggregate_type |-> fields.aggregate_type,
                     correlation_id |-> fields.correlation_id]
       IN
       /\ statistics' =
            [total_events |-> statistics.total_events + 1,
             events_by_domain |->
                 Increment(statistics.events_by_domain, event.domain),
             events_by_type |->
                 Increment(statistics.events_by_type, event.event_type),
             events_by_aggregate |->
                 Increment(statistics.events_by_aggregate, event.aggregate_type),
             correlation_chains |->
                 IF event.correlation_id # <<>>
                 THEN PushChain(statistics.correlation_chains,
                                event.correlation_id[1], event.event_id)
                 ELSE statistics.correlation_chains]
       /\ update_calls' = Append(update_calls, event)
    /\ UNCHANGED exceptStats

NextStats == \E fields \in StatEvents : EventStatisticsUpdate(fields)

\* The statistics resource alone; the bridge keeps its smallest capacity.
InitStats == Init /\ capacity = 1

SpecStats == InitStats /\ [][NextStats]_vars

\* ========================================================= command handlers
\* f32 coordinates, by their IEEE 754 bit patterns.
F32Zero == 0                \* 0.0
F32One == 1065353216        \* 1.0, 0x3F800000
F32Infinity == 2139095040   \* f32::INFINITY, 0x7F800000
F32NaN == 2143289344        \* f32::NAN, 0x7FC00000

\* f32::is_finite: the exponent field is not all ones.
is_finite(bits) == (bits \div 2^23) % 256 # 255

Position_new(x, y, z) == [x |-> x, y |-> y, z |-> z]

\* Mutant: the z coordinate is not looked at.
is_valid_xy(position) == is_finite(position.x) /\ is_finite(position.y)

\* Position::is_valid
is_valid(position) ==
    is_finite(position.x) /\ is_finite(position.y) /\ is_finite(position.z)

\* The positions a MoveNode asks for: two valid ones, one with an infinite
\* and one with a NaN coordinate.
MovePositions ==
    {Position_new(F32Zero, F32Zero, F32Zero),
     Position_new(F32One, F32Zero, F32Zero),
     Position_new(F32Zero, F32Infinity, F32Zero),
     Position_new(F32Zero, F32Zero, F32NaN)}

MoveNodeCommands == [node_id : NodeIds, new_position : MovePositions]

SelectNodeCommands == [node_id : NodeIds, multi_select : BOOLEAN]

\* VisualNodeAggregate::new: the id and position given, InteractionState::default().
VisualNodeAggregate_new(node_id, position) ==
    [node_id |-> node_id, position |-> position, is_selected |-> FALSE]

\* handle_create_visual_node on one CreateVisualNode: the aggregate is
\* spawned (its command applied at the next sync point, before the other
\* handlers' next run). Nothing checks whether the id is already in use.
HandleCreateVisualNode(node_id) ==
    /\ Len(nodes) < MaxNodes
    /\ nodes' = Append(nodes, VisualNodeAggregate_new(
                                 node_id, Position_new(F32Zero, F32Zero, F32Zero)))
    /\ UNCHANGED <<exceptHandlers, move_events, moved_events, move_trace,
                   select_events, selected_events, deselected_events,
                   select_trace>>

\* A system sends a MoveNode, in a frame after the one whose NodeMoved were
\* dropped.
SendMoveNode(event) ==
    /\ move_trace = <<>>
    /\ Len(move_events) < MaxHandlerEvents
    /\ move_events' = Append(move_events, event)
    /\ UNCHANGED <<exceptHandlers, nodes, moved_events, move_trace,
                   select_events, selected_events, deselected_events,
                   select_trace>>

\* A system sends a SelectNode, in a frame after the one whose NodeSelected
\* and NodeDeselected were dropped.
SendSelectNode(event) ==
    /\ select_trace = <<>>
    /\ Len(select_events) < MaxHandlerEvents
    /\ select_events' = Append(select_events, event)
    /\ UNCHANGED <<exceptHandlers, nodes, move_events, moved_events,
                   move_trace, selected_events, deselected_events,
                   select_trace>>

\* The entities of the query whose NodeId is the given one, in query order.
Matching(ns, node_id) == {i \in DOMAIN ns : ns[i].node_id = node_id}

First(indices) == CHOOSE i \in indices : \A j \in indices : i <= j

\* The body of handle_move_node's outer loop for one MoveNode: the first
\* entity with the node id is looked at, moved if the position is valid,
\* and the inner loop breaks.
move_one(st, event) ==
    IF Matching(st.nodes, event.node_id) = {} THEN st
    ELSE LET entity == First(Matching(st.nodes, event.node_id))
             old_position == st.nodes[entity].position
         IN IF is_valid(event.new_position)
            THEN [nodes |-> [st.nodes EXCEPT ![entity].position = event.new_position],
                  sent |-> Append(st.sent,
                                  [entity |-> entity,
                                   node_id |-> event.node_id,
                                   old_position |-> old_position,
                                   new_position |-> event.new_position])]
            ELSE st

RECURSIVE MoveTrace(_, _)
MoveTrace(st, queue) ==
    IF queue = <<>> THEN <<st>>
    ELSE <<st>> \o MoveTrace(move_one(st, Head(queue)), Tail(queue))

\* handle_move_node: every unread MoveNode, in order.
HandleMoveNode ==
    /\ move_events # <<>>
    /\ LET trace == MoveTrace([nodes |-> nodes, sent |-> <<>>], move_events) IN
       /\ move_trace' = trace
       /\ nodes' = trace[Len(trace)].nodes
       /\ moved_events' = trace[Len(trace)].sent
    /\ move_events' = <<>>
    /\ UNCHANGED <<exceptHandlers, select_events, selected_events,
                   deselected_events, select_trace>>

\* The entities a pass over the query picks, in query order.
Picked(ns, Test(_)) ==
    SelectSeq([i \in 1..Len(ns) |-> i], Test)

\* `if !event.multi_select`: every selected entity with another node id is
\* deselected and a NodeDeselected is sent for it.
deselect_others(st, event) ==
    LET Other(i) == st.nodes[i].is_selected /\ st.nodes[i].node_id # event.node_id
        others == Picked(st.nodes, Other)
    IN [st EXCEPT
          !.nodes = [i \in 1..Len(st.nodes) |->
                       IF Other(i) THEN [st.nodes[i] EXCEPT !.is_selected = FALSE]
                       ELSE st.nodes[i]],
          !.deselected = @ \o [k \in 1..Len(others) |->
                                 [entity |-> others[k],
                                  node_id |-> st.nodes[others[k]].node_id]]]

\* The second loop: the first entity with the node id that is not selected
\* yet is selected, a NodeSelected is sent, and the loop breaks.
select_target(st, event) ==
    LET targets == {i \in Matching(st.nodes, event.node_id) :
                      ~st.nodes[i].is_selected}
    IN IF targets = {} THEN st
       ELSE [st EXCEPT
               !.nodes[First(targets)].is_selected = TRUE,
               !.selected = Append(@, [entity |-> First(targets),
                                       node_id |-> event.node_id])]

\* Mutant: the deselection pass is skipped whatever multi_select says.
select_one_KeepsOthers(st, event) == select_target(st, event)

\* The body of handle_select_node's outer loop for one SelectNode.
select_one(st, event) ==
    select_target(IF ~event.multi_select THEN deselect_others(st, event) ELSE st,
                  event)

RECURSIVE SelectTrace(_, _)
SelectTrace(st, queue) ==
    IF queue = <<>> THEN <<st>>
    ELSE <<st>> \o SelectTrace(select_one(st, Head(queue)), Tail(queue))

\* handle_select_node: every unread SelectNode, in order.
HandleSelectNode ==
    /\ select_events # <<>>
    /\ LET trace == SelectTrace([nodes |-> nodes, selected |-> <<>>,
                                 deselected |-> <<>>], select_events) IN
       /\ select_trace' = trace
       /\ nodes' = trace[Len(trace)].nodes
       /\ selected_events' = trace[Len(trace)].selected
       /\ deselected_events' = trace[Len(trace)].deselected
    /\ select_events' = <<>>
    /\ UNCHANGED <<exceptHandlers, move_events, moved_events, move_trace>>

\* Events<NodeMoved> is updated: what the handler's last run sent is dropped.
DropNodeMoved ==
    /\ move_trace # <<>>
    /\ moved_events' = <<>>
    /\ move_trace' = <<>>
    /\ UNCHANGED <<exceptHandlers, nodes, move_events, select_events,
                   selected_events, deselected_events, select_trace>>

\* Events<NodeSelected> and Events<NodeDeselected> are updated likewise.
DropNodeSelected ==
    /\ select_trace # <<>>
    /\ selected_events' = <<>>
    /\ deselected_events' = <<>>
    /\ select_trace' = <<>>
    /\ UNCHANGED <<exceptHandlers, nodes, move_events, moved_events,
                   move_trace, select_events>>

NextMove ==
    \/ DropNodeMoved
    \/ \E node_id \in NodeIds : HandleCreateVisualNode(node_id)
    \/ \E event \in MoveNodeCommands : SendMoveNode(event)
    \/ HandleMoveNode

\* The handlers alone; the bridge keeps its smallest capacity.
InitHandlers == Init /\ capacity = 1

SpecMove == InitHandlers /\ [][NextMove]_vars

NextSelect ==
    \/ DropNodeSelected
    \/ \E node_id \in NodeIds : HandleCreateVisualNode(node_id)
    \/ \E event \in SelectNodeCommands : SendSelectNode(event)
    \/ HandleSelectNode

SpecSelect == InitHandlers /\ [][NextSelect]_vars

\* ============================================================= event store
\* EventStore::new(max_events) for any max_events, zero included: the plugin
\* hands its pub max_events field over as it is.
InitStore ==
    /\ LaterRest
    /\ BridgeInit /\ capacity = 1
    /\ FunctorRest
    /\ NatsRest
    /\ VisualRest
    /\ max_events \in 0..MaxStoreEvents
    /\ StreamIdle

SpecStore == InitStore /\ [][NextFrames]_vars

\* ======================================================== morphism systems
\* The CreateEdgeVisual events a system may send: a new edge id each time,
\* any two endpoints.
EdgeEndpoints == [source_node_id : NodeIds, target_node_id : NodeIds]

MorphismSystems == {"create_node_visual", "create_edge_visual"}

\* The morphism plugin alone; the bridge keeps its smallest capacity.
InitMorphisms == Init /\ capacity = 1

\* Some system writes a CreateNodeVisual.
EmitCreateNodeVisual(node_id) ==
    /\ Len(node_events) < MaxNodeEvents
    /\ node_events' = Append(node_events, [node_id |-> node_id])
    /\ UNCHANGED <<exceptMorphisms, edge_events, edge_preceded, node_cursor,
                   edge_cursor, deferred, node_visuals, edge_visuals, ran>>

\* Some system writes a CreateEdgeVisual.
EmitCreateEdgeVisual(ends) ==
    /\ Len(edge_events) < MaxEdgeEvents
    /\ edge_events' = Append(edge_events,
                             [edge_id |-> Len(edge_events) + 1,
                              source_node_id |-> ends.source_node_id,
                              target_node_id |-> ends.target_node_id])
    /\ edge_preceded' = Append(edge_preceded,
                               {node_events[i].node_id : i \in DOMAIN node_events})
    /\ UNCHANGED <<exceptMorphisms, node_events, node_cursor, edge_cursor,
                   deferred, node_visuals, edge_visuals, ran>>

\* The events a reader with the given cursor has not read.
Unread(sent_events, cursor) == SubSeq(sent_events, cursor + 1, Len(sent_events))

\* create_node_visual: one commands.spawn(NodeVisualBundle) per unread
\* event, queued until the next sync point. (The VisualNodeCreated it also
\* writes is read by none of these systems.)
CreateNodeVisualSystem ==
    /\ "create_node_visual" \notin ran
    /\ LET unread == Unread(node_events, node_cursor) IN
       deferred' = deferred \o [k \in 1..Len(unread) |->
                                  [spawn |-> "NodeVisual", id |-> unread[k].node_id]]
    /\ node_cursor' = Len(node_events)
    /\ ran' = ran \cup {"create_node_visual"}
    /\ UNCHANGED <<exceptMorphisms, node_events, edge_events, edge_preceded,
                   edge_cursor, node_visuals, edge_visuals>>

\* What create_edge_visual does with one event: both endpoints are looked
\* up among the entities the query shows, and the edge is spawned only when
\* both are found.
EdgeSpawns(event) ==
    IF /\ event.source_node_id \in node_visuals
       /\ event.target_node_id \in node_visuals
    THEN <<[spawn |-> "EdgeVisual", id |-> event.edge_id]>>
    ELSE <<>>

RECURSIVE EdgeSpawnsOf(_)
EdgeSpawnsOf(unread) ==
    IF unread = <<>> THEN <<>>
    ELSE EdgeSpawns(Head(unread)) \o EdgeSpawnsOf(Tail(unread))

\* create_edge_visual: every unread event is read, once.
CreateEdgeVisualSystem ==
    /\ "create_edge_visual" \notin ran
    /\ deferred' = deferred \o EdgeSpawnsOf(Unread(edge_events, edge_cursor))
    /\ edge_cursor' = Len(edge_events)
    /\ ran' = ran \cup {"create_edge_visual"}
    /\ UNCHANGED <<exceptMorphisms, node_events, edge_events, edge_preceded,
                   node_cursor, node_visuals, edge_visuals>>

\* The queued commands are applied to the world.
Applied(kind) ==
    {deferred[k].id : k \in {j \in DOMAIN deferred : deferred[j].spawn = kind}}

\* A sync point of the schedule. The morphism systems are registered with no
\* order between them, so one may fall between their runs or not.
ApplyDeferred ==
    /\ deferred # <<>>
    /\ ran # MorphismSystems
    /\ node_visuals' = node_visuals \cup Applied("NodeVisual")
    /\ edge_visuals' = edge_visuals \cup Applied("EdgeVisual")
    /\ deferred' = <<>>
    /\ UNCHANGED <<exceptMorphisms, node_events, edge_events, edge_preceded,
                   node_cursor, edge_cursor, ran>>

\* The schedule ends: whatever is still queued is applied, and the next
\* frame starts.
EndFrame ==
    /\ ran = MorphismSystems
    /\ node_visuals' = node_visuals \cup Applied("NodeVisual")
    /\ edge_visuals' = edge_visuals \cup Applied("EdgeVisual")
    /\ deferred' = <<>>
    /\ ran' = {}
    /\ UNCHANGED <<exceptMorphisms, node_events, edge_events, edge_preceded,
                   node_cursor, edge_cursor>>

NextMorphisms ==
    \/ \E node_id \in NodeIds : EmitCreateNodeVisual(node_id)
    \/ \E ends \in EdgeEndpoints : EmitCreateEdgeVisual(ends)
    \/ CreateNodeVisualSystem
    \/ CreateEdgeVisualSystem
    \/ ApplyDeferred
    \/ EndFrame

SpecMorphisms == InitMorphisms /\ [][NextMorphisms]_vars

\* ---------------------------------------------------------------- helpers
IsPrefix(a, b) == Len(a) <= Len(b) /\ SubSeq(b, 1, Len(a)) = a

\* The steps the tick thread can take by itself once it is inside a system.
TickStep ==
    \/ PdeRecv
    \/ PdeReturn
    \/ PdeWrite
    \/ SvcSend
    \/ SvcUnblock
    \/ SvcDone
    \/ SendUnblock(TickCaller)

\* -------------------------------------------------------------- properties
\* C1: every receive_domain_events() returns exactly the events that were
\* enqueued since the previous drain returned, in send order: none lost, none
\* duplicated, and nothing at all when nothing was sent in between.  With
\* N <= capacity sends and no drain in between these are the N events sent.
C1_DrainReturnsSentInOrder ==
    [][(cur = "pde_recv" /\ cur' = "pde_write")
         => events' = SubSeq(accepted, Len(delivered) + 1, Len(accepted))]_vars

\* C1 witness: a drain has just returned capacity >= 2 events, all of which
\* were queued, with no drain in between, before it started.
C1_Witness ==
    /\ cur = "pde_write"
    /\ capacity >= 2
    /\ Len(events) = capacity
    /\ pdeSnapshot = events

\* C2 (as claimed): send_domain_event on a full queue returns ChannelFull at
\* once, so the tick thread is never parked inside send_domain_event.
C2_SendDomainEventNeverBlocks == caller[TickCaller] # "blocked"

\* C3 (as claimed): once inside a system the tick thread can always take its
\* next step by itself, whatever the async side does or fails to do.
C3_TickNeverWaits == (cur # "none") => ENABLED TickStep

\* C4 (as claimed): an event whose send found the queue full is rejected and
\* leaves the queue unchanged: it never enters the queue.
C4_ExcessSendRejected ==
    [][\A p \in Callers :
         caller[p] = "blocked" => <<p, sent[p]>> \notin Range(domain_to_bevy')]_vars

\* C5: both queues hold at most `capacity` messages in every reachable state,
\* and the capacity given to new() never changes.
C5_QueuesWithinCapacity ==
    /\ [](Len(domain_to_bevy) <= capacity /\ Len(bevy_to_domain) <= capacity)
    /\ [][capacity' = capacity]_vars

\* C5 witness: both queues are full at once and a further send is parked.
C5_Witness ==
    /\ Len(domain_to_bevy) = capacity
    /\ Len(bevy_to_domain) = capacity
    /\ \E p \in Callers : caller[p] = "blocked"

\* C6: with several producers sending while the tick thread drains, every
\* accepted event is in exactly one place (one drain result, the drain under
\* way, or still queued), and the events of one producer appear across the
\* drain results in that producer's send order.
C6_ExactlyOnceInProducerOrder ==
    /\ accepted = delivered \o (IF cur = "pde_recv" THEN events ELSE <<>>)
                            \o domain_to_bevy
    /\ \A i, j \in DOMAIN delivered :
         (i < j /\ delivered[i][1] = delivered[j][1])
            => delivered[i][2] < delivered[j][2]

\* C6 witness: a drain that returned while a producer's send came in during
\* it, with events of both producers in the results so far.
C6_Witness ==
    /\ cur = "pde_write"
    /\ Len(accepted) > pdeBase
    /\ Producers \subseteq {delivered[i][1] : i \in DOMAIN delivered}
    /\ \E i \in DOMAIN delivered : delivered[i][2] = 2

\* C7 (as claimed): a send_command that returns after the domain side dropped
\* every receiver it obtained returns ChannelDisconnected and enqueues nothing.
C7_SendAfterReceiversDropped ==
    [][(/\ cur \in {"svc", "svc_send"}
        /\ viz_commands # <<>>
        /\ viz_commands' = Tail(viz_commands)
        /\ ReceiversAllDropped)
         => (/\ send_command_result' = "ChannelDisconnected"
             /\ bevy_to_domain' = bevy_to_domain)]_vars

\* C8 (as claimed): a drain that ends after the domain side dropped every
\* sender it obtained ends with the ChannelDisconnected condition, not Empty.
C8_DrainAfterSendersDropped ==
    [][(cur = "pde_recv" /\ cur' = "pde_write" /\ SendersAllDropped)
         => try_recv_err' = "Disconnected"]_vars

\* C9: when process_domain_events ends, every event that was queued when it
\* started has left the channel and leads the drained events; the drained
\* events were written to the host queue once each, in channel order, in this
\* tick; and if no send was accepted meanwhile the channel is empty and exactly
\* the events queued at the start were written.
C9_DrainRepublishesAll ==
    [][(cur = "pde_write" /\ cur' = "none")
         => (/\ IsPrefix(pdeSnapshot, events)
             /\ Range(pdeSnapshot) \cap Range(domain_to_bevy') = {}
             /\ domain_events' = domain_events \o events
             /\ "pde" \in done' /\ "pde" \notin done
             /\ (Len(accepted) = pdeBase
                   => domain_to_bevy' = <<>> /\ events = pdeSnapshot))]_vars

\* C9 witness: process_domain_events has ended in this tick after writing
\* two or more events, and the channel already holds a later event.
C9_Witness ==
    /\ cur = "none"
    /\ "pde" \in done
    /\ Len(domain_events) >= 2
    /\ domain_to_bevy # <<>>

\* C10 (as claimed): a command whose send found the channel full is dropped:
\* it never enters the channel, in this tick or a later one.
C10_FullCommandDropped ==
    [][cur = "svc_send" => Head(viz_commands) \notin Range(bevy_to_domain')]_vars

\* C11 (as claimed): within a tick the systems run in a fixed order:
\* process_domain_events before any application system, and
\* send_visualization_commands only after both.
C11_SystemsRunInOrder ==
    /\ ("app" \in done \/ cur = "app_send") => "pde" \in done
    /\ ("svc" \in done \/ cur \in {"svc", "svc_send"})
          => {"pde", "app"} \subseteq done

\* C12: the commands send_command accepted are the emitted commands in
\* emission order, and each of them is in exactly one place: received by one
\* of the domain tasks holding a clone of command_receiver(), in send order,
\* or still queued behind the received ones.
C12_CommandsExactlyOnceInOrder ==
    /\ cmdAccepted = [i \in 1..Len(cmdAccepted) |-> i]
    /\ cmdAccepted = cmdReceived \o bevy_to_domain

\* C12 witness: two commands were received while both domain tasks held a
\* clone of the receiver, after an event sent from the tick thread had been
\* drained and republished.
C12_Witness ==
    /\ Len(cmdReceived) >= 2
    /\ \A c \in CommandConsumers : cons[c] = "live"
    /\ delivered # <<>>

\* C15: F then G on any node id n, graph id g and position p yields an
\* UpdateNodePosition command that carries n and p.
C15_RoundTripKeepsNodeAndPosition ==
    command # <<>>
      => (/\ command[1].kind = "UpdateNodePosition"
          /\ command[1].node_id = fn_input[1].node_id
          /\ command[1].position = fn_input[1].position)

\* C15 witness: the round trip has run on a position away from the origin,
\* and the command's graph id is not the one the bundle was built with.
C15_Witness ==
    /\ command # <<>>
    /\ fn_input[1].position = <<1, 2, 0>>
    /\ command[1].graph_id # fn_input[1].graph_id

\* C13 (as claimed): an update that is processed after the entity of its id
\* was deleted is a no-op: no live entity carries a deleted id.
C13_LateUpdateIsNoOp ==
    \A i \in DOMAIN world :
      world[i].alive => world[i].synced[1] \notin deleted_ids

\* C16: when a run of apply_component_updates ends, no live entity with the
\* sync marker carries a pending update, whatever the type and the payload
\* of the updates that were pending.
C16_NoPendingAfterApply ==
    [][(nats_cur = "processed" /\ nats_cur' = "idle")
         => \A i \in DOMAIN world' :
              (world'[i].alive /\ world'[i].synced # <<>>)
                 => world'[i].pending = <<>>]_vars

\* C16 witness: after a run, one entity has lost a pending update that was
\* mapped to no component (unmapped type or payload that does not
\* deserialise) and another one got a Transform.
C16_Witness ==
    /\ nats_cur = "idle"
    /\ \E i, j \in DOMAIN world :
         /\ world[i].alive /\ world[i].pending = <<>>
         /\ world[i].transform = <<>> /\ world[i].name = <<>>
         /\ world[j].alive /\ world[j].pending = <<>>
         /\ world[j].transform # <<>>

\* C17: in a run of process_nats_component_events the new entities are, in
\* order, one per Added/Updated event whose entity_id no entity had when the
\* run started, each carrying exactly the sync marker with that id and the
\* event's data as pending update; an event whose id an entity had attaches
\* its data to such an entity and creates none; nothing else changes.
C17_SpawnsExactlyWhenUnknown ==
    [][(nats_cur = "idle" /\ nats_cur' = "processed")
         => LET Unknown(e) == e.kind # "Removed"
                              /\ SyncedMatches(world, e.entity_id) = {}
                Known(e) == e.kind # "Removed"
                            /\ SyncedMatches(world, e.entity_id) # {}
                unmatched == SelectSeq(event_receiver, Unknown)
                matched == SelectSeq(event_receiver, Known)
            IN /\ Len(world') = Len(world) + Len(unmatched)
               /\ \A k \in DOMAIN unmatched :
                    world'[Len(world) + k] =
                      [alive |-> TRUE, synced |-> <<unmatched[k].entity_id>>,
                       pending |-> <<unmatched[k].component_data>>,
                       transform |-> <<>>, name |-> <<>>]
               /\ \A k \in DOMAIN matched :
                    \E i \in SyncedMatches(world, matched[k].entity_id) :
                      \E m \in DOMAIN matched :
                        /\ matched[m].entity_id = matched[k].entity_id
                        /\ world'[i].pending = <<matched[m].component_data>>
               /\ \A i \in DOMAIN world :
                    /\ [world'[i] EXCEPT !.pending = <<>>]
                         = [world[i] EXCEPT !.pending = <<>>]
                    /\ (\A k \in DOMAIN matched :
                          world[i].synced # <<matched[k].entity_id>>)
                         => world'[i] = world[i]]_vars

\* C17 witness: the second of two events found the entity the first one had
\* created, which now has its Transform and a new pending update, and no
\* second entity exists.
C17_Witness ==
    /\ nats_cur = "processed"
    /\ nats_sent = 2
    /\ Len(world) = 1
    /\ world[1].transform # <<>>
    /\ world[1].pending # <<>>

\* C18: a run of apply_component_updates gives every live synced entity
\* whose pending update has type Position3D and a payload with x, y, z the
\* Transform translation (x, y, z), and every one whose pending update has
\* type Label and a payload with text the Name text.
C18_PayloadBecomesComponent ==
    [][(nats_cur = "processed" /\ nats_cur' = "idle")
         => \A i \in DOMAIN world :
              (world[i].alive /\ world[i].synced # <<>> /\ world[i].pending # <<>>)
                => LET cd == world[i].pending[1] IN
                   /\ (cd.component_type = "Position3D"
                         /\ {"x", "y", "z"} \subseteq cd.data.fields)
                        => world'[i].transform = <<cd.data.xyz>>
                   /\ (cd.component_type = "Label" /\ "text" \in cd.data.fields)
                        => world'[i].name = <<cd.data.text>>]_vars

\* C18 witness: after the update in which they were received, one entity
\* has the translation (1, 2, 0) and one has the Name "A".
C18_Witness ==
    /\ nats_cur = "idle"
    /\ event_receiver = <<>>
    /\ \E i, j \in DOMAIN world :
         /\ world[i].alive /\ world[i].transform = <<<<1, 2, 0>>>>
         /\ world[j].alive /\ world[j].name = <<"A">>

\* C14 (as claimed): once a NodeAdded with id X and position p was sent,
\* drained, and its creation event read by every consumer registered in the
\* application, the scene has exactly one visual entity tagged X, and that
\* entity is placed at p.
C14_OneVisualPerNodeAdded ==
    \A k \in DOMAIN create_events :
      (/\ \A r \in CreateNodeReaders : last_read[r] >= k
       /\ host_events[k].position # <<>>)
        => LET tagged == {i \in DOMAIN scene :
                            scene[i].node_id = host_events[k].node_id} IN
           /\ Cardinality(tagged) = 1
           /\ \A i \in tagged :
                scene[i].translation = Eighths(host_events[k].position[1])

\* C19: a run of process_incoming_events writes at most ten events; the
\* events written are, in arrival order and once each, the events that
\* arrived and are not queued any more; each was stored as it was written
\* (the store holds the latest max_events of them); and as long as frames
\* keep running every event that arrived is eventually written.
C19_EveryEventEventuallyWritten ==
    /\ [][Len(stream_written') <= Len(stream_written) + BatchPerFrame]_vars
    /\ [](stream_arrived = stream_written \o nats_channel)
    /\ [](event_store =
            SubSeq(stream_written,
                   IF Len(stream_written) > max_events
                   THEN Len(stream_written) - max_events + 1 ELSE 1,
                   Len(stream_written)))
    /\ \A k \in 1..MaxStreamEvents :
         (Len(stream_arrived) >= k) ~> (Len(stream_written) >= k)

\* C19 witness: a run has just taken ten events and left the rest queued.
C19_Witness ==
    /\ frame_cur = "create_event_visuals"
    /\ Len(unread_events) = BatchPerFrame
    /\ nats_channel # <<>>

\* C20 (as claimed): the scene never holds more than max_events entities
\* with EventVisual.
C20_VisualsWithinMaxEvents == Len(event_visuals) <= max_events

\* C25 (as claimed): no two live entities carry NatsSyncedEntity with the
\* same entity_id.
C25_OneEntityPerId ==
    \A i, j \in DOMAIN world :
      (i # j /\ world[i].alive /\ world[j].alive /\ world[i].synced # <<>>)
         => world[i].synced # world[j].synced

\* C26 (as claimed): when apply_component_updates has run, every Added or
\* Updated event drained in this update has been applied: if its data is a
\* Position3D (a Label) that deserialises and no later event of the same
\* drain brought another one for the same entity_id, a live entity with that
\* id has that translation (that Name).
C26_EveryDrainedEventApplied ==
    [][(nats_cur = "processed" /\ nats_cur' = "idle")
         => \A k \in DOMAIN drained_events :
              LET e == drained_events[k]
                  cd == e.component_data
                  Later(type) ==
                    \E m \in DOMAIN drained_events :
                      /\ m > k
                      /\ drained_events[m].kind # "Removed"
                      /\ drained_events[m].entity_id = e.entity_id
                      /\ drained_events[m].component_data.component_type = type
                  Holders == {i \in DOMAIN world' :
                                world'[i].alive /\ world'[i].synced = <<e.entity_id>>}
              IN e.kind # "Removed"
                 => /\ (/\ cd.component_type = "Position3D"
                        /\ {"x", "y", "z"} \subseteq cd.data.fields
                        /\ ~Later("Position3D"))
                       => \E i \in Holders : world'[i].transform = <<cd.data.xyz>>
                    /\ (/\ cd.component_type = "Label"
                        /\ "text" \in cd.data.fields
                        /\ ~Later("Label"))
                       => \E i \in Holders : world'[i].name = <<cd.data.text>>]_vars

RECURSIVE SumOfCounts(_)
SumOfCounts(map) ==
    IF DOMAIN map = {} THEN 0
    ELSE LET key == CHOOSE k \in DOMAIN map : TRUE IN
         map[key] + SumOfCounts([k \in DOMAIN map \ {key} |-> map[k]])

\* C21: after any sequence of EventStatistics::update calls, total_events is
\* the number of calls, and the per-domain counts, the per-type counts and
\* the per-aggregate counts each add up to it.
C21_TotalIsEverySum ==
    /\ statistics.total_events = Len(update_calls)
    /\ statistics.total_events = SumOfCounts(statistics.events_by_domain)
    /\ statistics.total_events = SumOfCounts(statistics.events_by_type)
    /\ statistics.total_events = SumOfCounts(statistics.events_by_aggregate)

\* Three updates, over two domains, one of them counted more than once.
C21_Witness ==
    /\ statistics.total_events >= 3
    /\ Cardinality(DOMAIN statistics.events_by_domain) = 2
    /\ \E d \in DOMAIN statistics.events_by_domain :
         statistics.events_by_domain[d] >= 2

\* The node ids with a selected entity.
SelectedNodes(ns) == {ns[i].node_id : i \in {j \in DOMAIN ns : ns[j].is_selected}}

\* C23: a run of handle_select_node leaves, after each SelectNode for an
\* existing node n, n as the only selected node when multi_select is false,
\* and the previously selected nodes plus n when it is true.
C23_SelectSingleOrAdd ==
    [][(select_events # <<>> /\ select_events' = <<>>)
         => /\ Len(select_trace') = Len(select_events) + 1
            /\ select_trace'[1].nodes = nodes
            /\ select_trace'[Len(select_trace')].nodes = nodes'
            /\ \A k \in DOMAIN select_events :
                 LET event == select_events[k]
                     before == select_trace'[k].nodes
                     after == select_trace'[k + 1].nodes
                 IN (\E i \in DOMAIN before : before[i].node_id = event.node_id)
                      => IF event.multi_select
                         THEN SelectedNodes(after) =
                                SelectedNodes(before) \cup {event.node_id}
                         ELSE SelectedNodes(after) = {event.node_id}]_vars

\* A run of two SelectNode: a multi-select that left two nodes selected, then
\* a single select that took the selection away from one of them.
C23_Witness ==
    /\ Len(select_trace) = 3
    /\ Cardinality(SelectedNodes(select_trace[2].nodes)) = 2
    /\ Cardinality(SelectedNodes(nodes)) = 1
    /\ deselected_events # <<>>

\* A coordinate that is a number: neither an infinity nor a NaN.
FiniteCoordinate(c) == c \in {F32Zero, F32One}

\* C24: a run of handle_move_node, for each MoveNode: when the command names
\* an existing node and all coordinates of its new position are finite, one
\* node with that id takes the new position and exactly one NodeMoved with
\* the old and the new position is sent; otherwise no position changes and
\* no NodeMoved is sent.
C24_MovesIffExistingAndValid ==
    [][(move_events # <<>> /\ move_events' = <<>>)
         => /\ Len(move_trace') = Len(move_events) + 1
            /\ move_trace'[1] = [nodes |-> nodes, sent |-> <<>>]
            /\ move_trace'[Len(move_trace')] =
                 [nodes |-> nodes', sent |-> moved_events']
            /\ \A k \in DOMAIN move_events :
                 LET event == move_events[k]
                     before == move_trace'[k]
                     after == move_trace'[k + 1]
                     Named == {i \in DOMAIN before.nodes :
                                 before.nodes[i].node_id = event.node_id}
                 IN IF /\ Named # {}
                       /\ FiniteCoordinate(event.new_position.x)
                       /\ FiniteCoordinate(event.new_position.y)
                       /\ FiniteCoordinate(event.new_position.z)
                    THEN \E i \in Named :
                           /\ after.nodes =
                                [before.nodes EXCEPT ![i].position = event.new_position]
                           /\ after.sent =
                                Append(before.sent,
                                       [entity |-> i,
                                        node_id |-> event.node_id,
                                        old_position |-> before.nodes[i].position,
                                        new_position |-> event.new_position])
                    ELSE after = before]_vars

\* A run with two MoveNode for an existing node: one moved it, the other was
\* refused.
C24_Witness ==
    /\ Len(move_trace) = 3
    /\ Len(moved_events) = 1
    /\ moved_events[1].old_position # moved_events[1].new_position
    /\ \E k \in 1..2 :
         /\ move_trace[k + 1] = move_trace[k]
         /\ move_trace[k].nodes # <<>>

\* The last n elements of a sequence (all of it when it is shorter).
LastOf(s, n) == SubSeq(s, IF Len(s) > n THEN Len(s) - n + 1 ELSE 1, Len(s))

\* C22 (as claimed): whatever max_events the store was created with, it holds
\* at most max_events events, and they are the most recently added ones in
\* arrival order.
C22_StoreKeepsLastMaxEvents ==
    /\ Len(event_store) <= max_events
    /\ event_store = LastOf(stream_written, max_events)

\* C27 (as claimed): a CreateEdgeVisual sent after the CreateNodeVisual of
\* both its endpoints gets its edge visual. Once create_edge_visual has read
\* the event and no command is waiting to be applied, nothing is left that
\* could still create the edge, so by then the edge visual must exist.
C27_EdgeVisualCreated ==
    \A k \in DOMAIN edge_events :
      (/\ {edge_events[k].source_node_id, edge_events[k].target_node_id}
            \subseteq edge_preceded[k]
       /\ edge_cursor >= k
       /\ deferred = <<>>)
        => edge_events[k].edge_id \in edge_visuals

====
